---- MODULE Spec2Model ----
(***************************************************************************)
(* Model of cricket_dashboard.py, a Streamlit script.  Streamlit executes  *)
(* the whole script top to bottom once at startup and once more after      *)
(* every widget interaction; widget values persist between runs.  One      *)
(* action of this module is one such run of the script.                    *)
(*                                                                         *)
(* Text (the "over" and "outcome" cells) is a sequence of one-character    *)
(* strings.  An empty CSV cell, which read_csv delivers as NaN, is the     *)
(* empty sequence <<>>.  A calendar date is a triple <<day, month, year>>  *)
(* in the files and an ordinal number once parsed.                         *)
(***************************************************************************)
EXTENDS Integers, Sequences, FiniteSets, TLC

VARIABLES
    csv_ball,               \* each_ball_records.csv, rows as read by read_csv
    csv_match,              \* each_match_records.csv
    cache,                  \* st.cache_data entry of load_data: <<>> or <<tables>>
    each_ball_records_df,   \* module-level table of the latest run
    each_match_records_df,
    season_filter,          \* widget values of the latest run
    team_filter,
    date_filter,
    analysis_type,
    export_clicked,         \* value the export button returned in the latest run
    filtered_match_df,
    filtered_ball_df,
    analysis,               \* aggregates computed by the selected analysis branch
    href,                   \* <<>> or <<download link>> rendered by the latest run
    error,                  \* exception that ended the latest run, or "none"
    steps                   \* stages the latest run executed, in order

vars == <<csv_ball, csv_match, cache, each_ball_records_df, each_match_records_df,
          season_filter, team_filter, date_filter, analysis_type, export_clicked,
          filtered_match_df, filtered_ball_df, analysis, href, error, steps>>

\* ---------------------------------------------------------------- bounds

MaxOverLen == 4         \* longest "over" cell text explored
MaxOutcomeLen == 3      \* longest "outcome" cell text explored
NumBatters == 11        \* distinct batter names in the Top Players tables
MaxExtra == 1           \* further deliveries appended to those tables
MaxSwaps == 1           \* tie transpositions an unstable sort may apply
TopN == 10              \* head(10)

\* ---------------------------------------------------------------- helpers

Range(s) == {s[i] : i \in 1..Len(s)}

Column(df, c) == [i \in 1..Len(df) |-> df[i][c]]

SeqsUpTo(S, n) == UNION {[1..k -> S] : k \in 0..n}

RECURSIVE SumSeq(_)
SumSeq(s) == IF s = <<>> THEN 0 ELSE Head(s) + SumSeq(Tail(s))

Count(s, x) == Cardinality({i \in 1..Len(s) : s[i] = x})

\* ---------------------------------------------------------------- load_data

\* load_data without the @st.cache_data decorator.
load_data_uncached(c) == TRUE

\* @st.cache_data: the files are read on a cache miss only; every call
\* returns a fresh copy of the cached value, so what the caller mutates in
\* place never reaches the cache.
load_data_reads(c) == c = <<>>

load_data(c, ball, match) ==
    IF load_data_reads(c) THEN [ball |-> ball, match |-> match] ELSE c[1]

\* ---------------------------------------------------------------- preprocessing

fillna(cell, default) == IF cell = <<>> THEN default ELSE cell[1]

\* pd.to_datetime(format='%d-%m-%Y'): an ordinal that orders dates by year,
\* then month, then day.
to_datetime(raw) == raw[3] * 10000 + raw[2] * 100 + raw[1]

\* Timestamp.date(), and pd.Timestamp(date) of a date picked in the widget.
IsoDate(ts) == <<ts \div 10000, (ts \div 100) % 100, ts % 100>>

PreprocessMatchRow(r) ==
    [r EXCEPT !.winner_runs = fillna(r.winner_runs, 0),
              !.winner_wickets = fillna(r.winner_wickets, 0),
              !.man_of_match = fillna(r.man_of_match, "No Award"),
              !.date = to_datetime(r.date)]

PreprocessMatch(df) == [i \in 1..Len(df) |-> PreprocessMatchRow(df[i])]

\* .astype(str): NaN becomes the text "nan".
astype_str(cell) == IF cell = <<>> THEN <<"n", "a", "n">> ELSE cell

\* .str.split('.').str[0]: the text before the first '.', the whole text
\* when it holds none.
RECURSIVE split_first(_)
split_first(s) ==
    IF s = <<>> \/ Head(s) = "." THEN <<>>
    ELSE <<Head(s)>> \o split_first(Tail(s))

Digits == {"0", "1", "2", "3", "4", "5", "6", "7", "8", "9"}

DigitValue(c) ==
    CASE c = "0" -> 0 [] c = "1" -> 1 [] c = "2" -> 2 [] c = "3" -> 3
      [] c = "4" -> 4 [] c = "5" -> 5 [] c = "6" -> 6 [] c = "7" -> 7
      [] c = "8" -> 8 [] c = "9" -> 9

\* int(text) raises ValueError unless text is an integer literal.
int_ok(s) == s # <<>> /\ \A i \in 1..Len(s) : s[i] \in Digits

RECURSIVE int_value(_)
int_value(s) ==
    IF s = <<>> THEN 0
    ELSE 10 * int_value(SubSeq(s, 1, Len(s) - 1)) + DigitValue(s[Len(s)])

\* A derivation that insists on the decimal point.
over_ok_needs_separator(cell) ==
    "." \in Range(astype_str(cell)) /\ int_ok(split_first(astype_str(cell)))

over_ok(cell) == int_ok(split_first(astype_str(cell)))

over_number(cell) == int_value(split_first(astype_str(cell)))

\* Line 22 has run for every row; line 23 adds the column only when no row
\* raises.
BallAstype(df) == [i \in 1..Len(df) |-> [df[i] EXCEPT !.over = astype_str(df[i].over)]]

PreprocessBallRow(r) ==
    [match_no |-> r.match_no, over |-> astype_str(r.over), batter |-> r.batter,
     bowler |-> r.bowler, score |-> r.score, outcome |-> r.outcome,
     over_number |-> over_number(r.over)]

PreprocessBall(df) == [i \in 1..Len(df) |-> PreprocessBallRow(df[i])]

PreprocessRaises(df) == \E i \in 1..Len(df) : ~over_ok(df[i].over)

\* ---------------------------------------------------------------- widgets

unique(df, c) == Range(Column(df, c))

SeasonOptions(m) == unique(m, "season")

TeamOptions(m) == unique(m, "team1") \cup unique(m, "team2")

MinDate(m) == CHOOSE d \in unique(m, "date") : \A e \in unique(m, "date") : d <= e

MaxDate(m) == CHOOSE d \in unique(m, "date") : \A e \in unique(m, "date") : e <= d

\* The days of the calendar the model tells apart: the later one has the
\* smaller day of the month.
Day1 == <<31, 3, 2023>>

Day2 == <<1, 4, 2023>>

CalendarDays == {Day1, Day2}

Calendar == {to_datetime(d) : d \in CalendarDays}

\* st.date_input with a pair as value returns a tuple of 0, 1 or 2 dates,
\* each within [min_value, max_value]: 1 while a range is half picked.
DateInputValues(m) ==
    SeqsUpTo({d \in Calendar : MinDate(m) <= d /\ d <= MaxDate(m)}, 2)

AnalysisTypes ==
    <<"Match Distribution", "Run Distribution", "Wicket Distribution",
      "Toss Analysis", "Match Outcomes", "Top Players">>

\* date_filter[0] and date_filter[1] raise IndexError on a shorter tuple.
DateIndexRaises(dt) == Len(dt) < 2

\* ---------------------------------------------------------------- filter

isin(x, S) == x \in S

\* Series.between, inclusive="neither".
between_exclusive(x, left, right) == left < x /\ x < right

\* Series.between, inclusive="both".
between(x, left, right) == left <= x /\ x <= right

MatchMask(r, sf, start, end, tf) ==
    /\ isin(r.season, sf)
    /\ between(r.date, start, end)
    /\ (isin(r.team1, tf) \/ isin(r.team2, tf))

FilterMatches(m, sf, start, end, tf) ==
    SelectSeq(m, LAMBDA r : MatchMask(r, sf, start, end, tf))

\* A join on the row position instead of the match number.
BallMask_by_position(b, fm) == isin(b.match_no, 1..Len(fm))

BallMask(b, fm) == isin(b.match_no, unique(fm, "match_number"))

FilterBalls(b, fm) == SelectSeq(b, LAMBDA r : BallMask(r, fm))

\* ---------------------------------------------------------------- analyses

\* Counts per value of a column, as value_counts, groupby().size() and
\* px.histogram over a categorical column give them; row order is left out.
CountBy(df, c) == [k \in unique(df, c) |-> Count(Column(df, c), k)]

SumBy(df, key, val) ==
    [k \in unique(df, key) |->
        SumSeq(Column(SelectSeq(df, LAMBDA r : r[key] = k), val))]

Lower(ch) ==
    CASE ch = "O" -> "o" [] ch = "U" -> "u" [] ch = "T" -> "t" [] OTHER -> ch

LowerText(s) == [i \in 1..Len(s) |-> Lower(s[i])]

Contains(s, pat) ==
    \E i \in 1..(Len(s) - Len(pat) + 1) : SubSeq(s, i, i + Len(pat) - 1) = pat

\* Series.str.contains(pat, case=case, na=na) for a pattern of plain letters.
str_contains(cell, pat, case, na) ==
    IF cell = <<>> THEN na
    ELSE IF case THEN Contains(cell, pat)
    ELSE Contains(LowerText(cell), LowerText(pat))

\* str.contains with the default case=True.
IsWicket_cased(r) == str_contains(r.outcome, <<"o", "u", "t">>, TRUE, FALSE)

IsWicket(r) == str_contains(r.outcome, <<"o", "u", "t">>, FALSE, FALSE)

wickets_df(fb) == SelectSeq(fb, LAMBDA r : IsWicket(r))

\* A margin test that lets the filled-in 0 through.
WonByRuns_or_zero(r) == r.winner_runs >= 0

WonByRuns(r) == r.winner_runs > 0

WonByWickets(r) == r.winner_wickets > 0

win_by_runs(fm) == SelectSeq(fm, LAMBDA r : WonByRuns(r))

win_by_wickets(fm) == SelectSeq(fm, LAMBDA r : WonByWickets(r))

\* value_counts: the distinct non-missing values in first-encountered order.
RECURSIVE FirstSeen(_)
FirstSeen(col) ==
    IF col = <<>> THEN <<>>
    ELSE LET init == FirstSeen(SubSeq(col, 1, Len(col) - 1))
             x == col[Len(col)]
         IN IF x = <<>> \/ x \in Range(init) THEN init ELSE Append(init, x)

\* The keys by descending count, equal counts in first-encountered order;
\* cnt[x] is the count of key x.
RECURSIVE StableDescending(_, _)
StableDescending(keys, cnt) ==
    IF keys = <<>> THEN <<>>
    ELSE LET best == CHOOSE i \in 1..Len(keys) :
                       /\ \A j \in 1..Len(keys) : cnt[keys[j]] <= cnt[keys[i]]
                       /\ \A j \in 1..(i - 1) : cnt[keys[j]] < cnt[keys[i]]
         IN <<keys[best]>> \o
            StableDescending(SubSeq(keys, 1, best - 1) \o SubSeq(keys, best + 1, Len(keys)), cnt)

SwapAt(p, i) == [k \in 1..Len(p) |-> IF k = i THEN p[i + 1] ELSE IF k = i + 1 THEN p[i] ELSE p[k]]

TieSwaps(P, cnt) ==
    P \cup UNION {{SwapAt(p, i) : i \in {k \in 1..(Len(p) - 1) : cnt[p[k]] = cnt[p[k + 1]]}} :
                    p \in P}

RECURSIVE TieOrders(_, _, _)
TieOrders(P, cnt, n) == IF n = 0 THEN P ELSE TieOrders(TieSwaps(P, cnt), cnt, n - 1)

\* value_counts: the count of every key.
Counts(keys, col) == [x \in Range(keys) |-> Count(col, x)]

\* sort_values(ascending=False) with the default kind="quicksort", which does
\* not promise an order among equal counts: every order reached from the
\* stable one by up to MaxSwaps transpositions of neighbouring equal counts.
sort_values(keys, cnt) == TieOrders({StableDescending(keys, cnt)}, cnt, MaxSwaps)

\* value_counts() without head(10).
head_all(s, n) == s

head(s, n) == SubSeq(s, 1, IF Len(s) < n THEN Len(s) ELSE n)

\* The outcomes of df[c].value_counts().head(10): rows <<name, count>>.
TopOutcomes(df, c) ==
    LET col == Column(df, c)
        keys == FirstSeen(col)
        cnt == Counts(keys, col)
    IN {[i \in 1..Len(head(p, TopN)) |-> <<p[i], cnt[p[i]]>>] : p \in sort_values(keys, cnt)}

NoAnalysis == [type |-> "none"]

AnalysisOutcomes(at, fm, fb) ==
    CASE at = "Match Distribution" ->
           {[type |-> at, seasons |-> CountBy(fm, "season"), venues |-> CountBy(fm, "venue")]}
      [] at = "Run Distribution" ->
           {[type |-> at, runs |-> CountBy(fb, "score"),
             overs_summary |-> SumBy(fb, "over_number", "score")]}
      [] at = "Wicket Distribution" ->
           {[type |-> at, wickets_df |-> wickets_df(fb),
             wickets_per_over |-> CountBy(wickets_df(fb), "over_number")]}
      [] at = "Toss Analysis" ->
           {[type |-> at, toss_outcomes |-> CountBy(fm, "toss_won"),
             toss_decisions |-> CountBy(fm, "toss_decision")]}
      [] at = "Match Outcomes" ->
           {[type |-> at, winners |-> CountBy(fm, "winner"),
             win_by_runs |-> win_by_runs(fm), win_by_wickets |-> win_by_wickets(fm)]}
      [] at = "Top Players" ->
           {[type |-> at, top_batters |-> tb, top_bowlers |-> tw] :
               tb \in TopOutcomes(fb, "batter"), tw \in TopOutcomes(fb, "bowler")}

\* ---------------------------------------------------------------- export

MatchColumns ==
    <<"match_number", "season", "date", "venue", "team1", "team2", "toss_won",
      "toss_decision", "winner", "winner_runs", "winner_wickets", "man_of_match">>

CsvCell(r, c) == IF c = "date" THEN IsoDate(r[c]) ELSE r[c]

CsvRow(r) == [k \in 1..Len(MatchColumns) |-> CsvCell(r, MatchColumns[k])]

\* DataFrame.to_csv(index=index): the header row, then one row per record;
\* index=True puts the row label in front of each.
to_csv(df, index) ==
    IF index
    THEN <<(<<"">> \o MatchColumns)>> \o [i \in 1..Len(df) |-> <<df[i].match_number - 1>> \o CsvRow(df[i])]
    ELSE <<MatchColumns>> \o [i \in 1..Len(df) |-> CsvRow(df[i])]

b64encode(text) == [base64 |-> text]

\* to_csv with the default index=True.
ExportLink_indexed(fm) ==
    [download |-> "cricket_data.csv", mime |-> "file/csv", data |-> b64encode(to_csv(fm, TRUE))]

ExportLink(fm) ==
    [download |-> "cricket_data.csv", mime |-> "file/csv", data |-> b64encode(to_csv(fm, FALSE))]

\* ---------------------------------------------------------------- the script

LoadSteps(c) == IF load_data_reads(c) THEN <<"read_csv", "load_data">> ELSE <<"load_data">>

\* One run of the script, lines 8-205.  fresh: no widget holds a value yet,
\* so each returns its default.  sf, tf, dt, at: the values the season, team,
\* date and analysis widgets return otherwise; btn: whether this run was
\* started by a click on the export button.
Script(fresh, sf, tf, dt, at, btn) ==
    LET tables == load_data(cache, csv_ball, csv_match)
        m == PreprocessMatch(tables.match)
        sfv == IF fresh THEN SeasonOptions(m) ELSE sf
        tfv == IF fresh THEN TeamOptions(m) ELSE tf
        dtv == IF fresh THEN <<MinDate(m), MaxDate(m)>> ELSE dt
        atv == IF fresh THEN AnalysisTypes[1] ELSE at
    IN /\ cache' = <<tables>>
       /\ UNCHANGED <<csv_ball, csv_match>>
       /\ each_match_records_df' = m
       /\ IF PreprocessRaises(tables.ball)
          THEN \* line 23 raises ValueError: nothing below it runs, no widget
               \* is drawn
               /\ each_ball_records_df' = BallAstype(tables.ball)
               /\ season_filter' = {} /\ team_filter' = {} /\ date_filter' = <<>>
               /\ analysis_type' = AnalysisTypes[1]
               /\ export_clicked' = FALSE
               /\ filtered_match_df' = <<>> /\ filtered_ball_df' = <<>>
               /\ analysis' = NoAnalysis
               /\ href' = <<>>
               /\ error' = "ValueError"
               /\ steps' = LoadSteps(cache) \o <<"preprocess">>
          ELSE /\ each_ball_records_df' = PreprocessBall(tables.ball)
               /\ season_filter' = sfv /\ team_filter' = tfv /\ date_filter' = dtv
               /\ IF DateIndexRaises(dtv)
                  THEN \* line 52 or 53 raises IndexError: the analysis select
                       \* box and the export button are not drawn, and a
                       \* widget that is not drawn loses its value
                       /\ analysis_type' = AnalysisTypes[1]
                       /\ export_clicked' = FALSE
                       /\ filtered_match_df' = <<>> /\ filtered_ball_df' = <<>>
                       /\ analysis' = NoAnalysis
                       /\ href' = <<>>
                       /\ error' = "IndexError"
                       /\ steps' = LoadSteps(cache) \o <<"preprocess", "widgets">>
                  ELSE LET fm == FilterMatches(m, sfv, dtv[1], dtv[2], tfv)
                           fb == FilterBalls(PreprocessBall(tables.ball), fm)
                       IN /\ analysis_type' = atv
                          /\ export_clicked' = btn
                          /\ filtered_match_df' = fm
                          /\ filtered_ball_df' = fb
                          /\ analysis' \in AnalysisOutcomes(atv, fm, fb)
                          /\ href' = IF btn THEN <<ExportLink(fm)>> ELSE <<>>
                          /\ error' = "none"
                          /\ steps' = LoadSteps(cache)
                                        \o <<"preprocess", "widgets", "filter", "analysis">>
                                        \o (IF btn THEN <<"export">> ELSE <<>>)

Drawn(w) == w \in Range(steps)

\* The first run of a session.
Startup ==
    /\ steps = <<>>
    /\ Script(TRUE, {}, {}, <<>>, AnalysisTypes[1], FALSE)

\* The user adds a season to the season multiselect, or removes one.
ToggleSeason ==
    /\ Drawn("widgets")
    /\ \E s \in SeasonOptions(each_match_records_df) :
         Script(FALSE, IF s \in season_filter THEN season_filter \ {s} ELSE season_filter \cup {s},
                team_filter, date_filter, analysis_type, FALSE)

ToggleTeam ==
    /\ Drawn("widgets")
    /\ \E t \in TeamOptions(each_match_records_df) :
         Script(FALSE, season_filter,
                IF t \in team_filter THEN team_filter \ {t} ELSE team_filter \cup {t},
                date_filter, analysis_type, FALSE)

\* The date picker delivers a new value.
PickDates ==
    /\ Drawn("widgets")
    /\ \E dt \in DateInputValues(each_match_records_df) :
         /\ dt # date_filter
         /\ Script(FALSE, season_filter, team_filter, dt, analysis_type, FALSE)

SelectAnalysis ==
    /\ Drawn("analysis")
    /\ \E at \in Range(AnalysisTypes) :
         /\ at # analysis_type
         /\ Script(FALSE, season_filter, team_filter, date_filter, at, FALSE)

\* The export button is True in the run its click starts and in no other.
ClickExport ==
    /\ Drawn("analysis")
    /\ Script(FALSE, season_filter, team_filter, date_filter, analysis_type, TRUE)

Next ==
    \/ Startup
    \/ ToggleSeason
    \/ ToggleTeam
    \/ PickDates
    \/ SelectAnalysis
    \/ ClickExport

\* A session in which the user changes the season selection and the analysis
\* category only.
NextAnalysis ==
    \/ Startup
    \/ ToggleSeason
    \/ SelectAnalysis

\* ---------------------------------------------------------------- input files

Seasons == {"2022", "2023"}

Pairings == {<<"CSK", "GT">>, <<"GT", "MI">>, <<"MI", "CSK">>}

Text(S, n) == SeqsUpTo(S, n)

MatchRow(n, season, day, t1, t2, runs, wickets) ==
    [match_number |-> n, season |-> season, date |-> day, venue |-> "Wankhede",
     team1 |-> t1, team2 |-> t2, toss_won |-> t1, toss_decision |-> "field",
     winner |-> t2, winner_runs |-> runs, winner_wickets |-> wickets,
     man_of_match |-> IF runs = <<>> /\ wickets = <<>> THEN <<>> ELSE <<"Gill">>]

BallRow(n, over, batter, bowler, score, outcome) ==
    [match_no |-> n, over |-> over, batter |-> batter, bowler |-> bowler,
     score |-> score, outcome |-> outcome]

Name(k) == <<"player", k>>

\* Nothing has run yet.
Fresh ==
    /\ cache = <<>>
    /\ each_ball_records_df = <<>> /\ each_match_records_df = <<>>
    /\ season_filter = {} /\ team_filter = {} /\ date_filter = <<>>
    /\ analysis_type = AnalysisTypes[1]
    /\ export_clicked = FALSE
    /\ filtered_match_df = <<>> /\ filtered_ball_df = <<>>
    /\ analysis = NoAnalysis
    /\ href = <<>>
    /\ error = "none"
    /\ steps = <<>>

\* Two matches, the second of any season, day and pairing; one delivery of
\* each match, one of a match the match file does not hold, and a last one of
\* any of the three.
Init ==
    /\ \E s \in Seasons, d \in CalendarDays, p \in Pairings :
         csv_match = <<MatchRow(1, "2022", Day1, "CSK", "GT", <<5>>, <<>>),
                       MatchRow(2, s, d, p[1], p[2], <<>>, <<3>>)>>
    /\ \E n \in 1..3 :
         csv_ball = <<BallRow(1, <<"0", ".", "1">>, Name(1), Name(2), 4, <<"n">>),
                      BallRow(2, <<"0", ".", "1">>, Name(3), Name(4), 0, <<"o", "u", "t">>),
                      BallRow(3, <<"0", ".", "1">>, Name(1), Name(2), 1, <<"n">>),
                      BallRow(n, <<"1", ".", "1">>, Name(1), Name(4), 6, <<"n">>)>>
    /\ Fresh

Spec == Init /\ [][Next]_vars

TwoSeasons(m1, m2) ==
    <<MatchRow(1, "2022", Day1, "CSK", "GT", m1[1], m1[2]),
      MatchRow(2, "2023", Day2, "GT", "MI", m2[1], m2[2])>>

\* Margins as the match file gives them: <<winner_runs, winner_wickets>>.
Margins == {<<<<>>, <<>>>>, <<<<5>>, <<>>>>, <<<<>>, <<3>>>>, <<<<0>>, <<3>>>>, <<<<5>>, <<0>>>>}

\* Two matches of any margins.
InitOutcomes ==
    /\ \E m1 \in Margins, m2 \in Margins : csv_match = TwoSeasons(m1, m2)
    /\ csv_ball = <<BallRow(1, <<"0", ".", "1">>, Name(1), Name(2), 4, <<"n">>),
                    BallRow(2, <<"0", ".", "1">>, Name(3), Name(4), 0, <<"o", "u", "t">>)>>
    /\ Fresh

SpecOutcomes == InitOutcomes /\ [][NextAnalysis]_vars

OverAlphabet == {"1", "3", "4", ".", "x"}

\* Two deliveries, the second with any "over" cell.
InitOver ==
    /\ csv_match = TwoSeasons(<<<<5>>, <<>>>>, <<<<>>, <<3>>>>)
    /\ \E o \in Text(OverAlphabet, MaxOverLen) :
         csv_ball = <<BallRow(1, <<"0", ".", "1">>, Name(1), Name(2), 4, <<"n">>),
                      BallRow(1, o, Name(3), Name(4), 1, <<"o", "u", "t">>)>>
    /\ Fresh

SpecOver == InitOver /\ [][NextAnalysis]_vars

OutcomeAlphabet == {"o", "U", "t", "n"}

\* Two deliveries: the first with any outcome text, the second of either
\* match, in the same over or the next, caught out or with no outcome.
InitWicket ==
    /\ csv_match = TwoSeasons(<<<<5>>, <<>>>>, <<<<>>, <<3>>>>)
    /\ \E x \in Text(OutcomeAlphabet, MaxOutcomeLen), n \in 1..2,
          o \in {<<"0", ".", "2">>, <<"1", ".", "1">>}, y \in {<<>>, <<"o", "u", "t">>} :
         csv_ball = <<BallRow(1, <<"0", ".", "1">>, Name(1), Name(2), 4, x),
                      BallRow(n, o, Name(3), Name(4), 0, y)>>
    /\ Fresh

SpecWicket == InitWicket /\ [][NextAnalysis]_vars

Bowler(j) == IF j % 3 = 0 THEN <<"bowler", 2>> ELSE <<"bowler", 1>>

\* <<batter, match_no>> of a further delivery.
ExtraRows == {<<Name(1), 2>>, <<Name(NumBatters), 1>>, <<Name(NumBatters), 2>>, <<<<>>, 1>>}

\* NumBatters deliveries of the first match, each faced by another batter,
\* then up to MaxExtra more, of either match, faced by the first batter, the
\* last one or nobody on record.
TopBalls(extra) ==
    [j \in 1..(NumBatters + Len(extra)) |->
        IF j <= NumBatters
        THEN BallRow(1, <<"0", ".", "1">>, Name(j), Bowler(j), 1, <<"n">>)
        ELSE BallRow(extra[j - NumBatters][2], <<"1", ".", "1">>,
                     extra[j - NumBatters][1], Bowler(j), 1, <<"n">>)]

InitTop ==
    /\ csv_match = TwoSeasons(<<<<5>>, <<>>>>, <<<<>>, <<3>>>>)
    /\ \E extra \in SeqsUpTo(ExtraRows, MaxExtra) : csv_ball = TopBalls(extra)
    /\ Fresh

SpecTop == InitTop /\ [][NextAnalysis]_vars

\* ---------------------------------------------------------------- properties

\* What the selections of the latest run ask of a match record.
Chosen(r) ==
    /\ r.season \in season_filter
    /\ date_filter[1] <= r.date /\ r.date <= date_filter[2]
    /\ (r.team1 \in team_filter \/ r.team2 \in team_filter)

MatchNumbers(df) == {df[i].match_number : i \in 1..Len(df)}

\* C1: a match record is in the filtered match table if and only if its
\* season is selected, its date lies in [start, end] with both endpoints
\* included, and its team1 or its team2 is selected; nothing else decides.
C1_FilterIff ==
    Drawn("filter") =>
        /\ \A i \in 1..Len(each_match_records_df) :
             (each_match_records_df[i] \in Range(filtered_match_df))
                <=> Chosen(each_match_records_df[i])
        /\ Range(filtered_match_df) \subseteq Range(each_match_records_df)
        /\ Len(filtered_match_df) =
             Cardinality({i \in 1..Len(each_match_records_df) : Chosen(each_match_records_df[i])})

\* A run that keeps one match and drops another whose season and teams are
\* selected, so that its date alone decides; the kept one lies on an endpoint.
C1_Witness ==
    /\ Drawn("filter")
    /\ \E i, j \in 1..Len(each_match_records_df) :
         /\ each_match_records_df[i] \in Range(filtered_match_df)
         /\ each_match_records_df[i].date = date_filter[2]
         /\ each_match_records_df[j] \notin Range(filtered_match_df)
         /\ each_match_records_df[j].season \in season_filter
         /\ each_match_records_df[j].team1 \in team_filter

\* C2: a ball event is in the filtered ball table if and only if its match
\* identifier is the match number of a retained match record; so the retained
\* identifiers are among the retained match numbers, and an event that
\* references no match record is never retained.
C2_BallIff ==
    Drawn("filter") =>
        /\ \A i \in 1..Len(each_ball_records_df) :
             (each_ball_records_df[i] \in Range(filtered_ball_df))
                <=> each_ball_records_df[i].match_no \in MatchNumbers(filtered_match_df)
        /\ Range(filtered_ball_df) \subseteq Range(each_ball_records_df)
        /\ {filtered_ball_df[i].match_no : i \in 1..Len(filtered_ball_df)}
             \subseteq MatchNumbers(filtered_match_df)
        /\ \A i \in 1..Len(filtered_ball_df) :
             filtered_ball_df[i].match_no \in MatchNumbers(each_match_records_df)

\* A run that keeps a ball event, drops one of a match that was filtered out
\* and drops one that references no match record.
C2_Witness ==
    /\ Drawn("filter")
    /\ filtered_ball_df # <<>>
    /\ \E i, j \in 1..Len(each_ball_records_df) :
         /\ each_ball_records_df[i] \notin Range(filtered_ball_df)
         /\ each_ball_records_df[i].match_no \in MatchNumbers(each_match_records_df)
         /\ each_ball_records_df[j] \notin Range(filtered_ball_df)
         /\ each_ball_records_df[j].match_no \notin MatchNumbers(each_match_records_df)

\* Every aggregate of the analysis branch that ran is zero or empty.
AnalysisEmpty(a) ==
    CASE a.type = "Match Distribution" -> DOMAIN a.seasons = {} /\ DOMAIN a.venues = {}
      [] a.type = "Run Distribution" -> DOMAIN a.runs = {} /\ DOMAIN a.overs_summary = {}
      [] a.type = "Wicket Distribution" ->
           Len(a.wickets_df) = 0 /\ DOMAIN a.wickets_per_over = {}
      [] a.type = "Toss Analysis" ->
           DOMAIN a.toss_outcomes = {} /\ DOMAIN a.toss_decisions = {}
      [] a.type = "Match Outcomes" ->
           DOMAIN a.winners = {} /\ Len(a.win_by_runs) = 0 /\ Len(a.win_by_wickets) = 0
      [] a.type = "Top Players" -> Len(a.top_batters) = 0 /\ Len(a.top_bowlers) = 0
      [] OTHER -> FALSE

\* C3: when no season or no team is selected, the run completes without an
\* error, retains zero matches and zero ball events, and the selected
\* analysis reports zero or empty results.
C3_EmptySelectionCompletes ==
    (Drawn("widgets") /\ (season_filter = {} \/ team_filter = {})) =>
        /\ error = "none"
        /\ Len(filtered_match_df) = 0
        /\ Len(filtered_ball_df) = 0
        /\ AnalysisEmpty(analysis)

\* C4: every value the date-range control delivers yields a start, an end and
\* a filter result, not a failure; a start later than the end yields the empty
\* match table and the empty ball table.
C4_DateRangeNeverFails ==
    Drawn("widgets") =>
        /\ error = "none"
        /\ Len(date_filter) = 2
        /\ Drawn("filter")
        /\ (date_filter[1] > date_filter[2] =>
              Len(filtered_match_df) = 0 /\ Len(filtered_ball_df) = 0)

\* C5 as stated: after the first run no run reads the files or preprocesses
\* again, and the preprocessed tables stay as they are.
C5_LoadedAndPreprocessedOnce ==
    [][steps # <<>> =>
         /\ "read_csv" \notin Range(steps')
         /\ "preprocess" \notin Range(steps')
         /\ each_match_records_df' = each_match_records_df
         /\ each_ball_records_df' = each_ball_records_df]_vars

\* C5, amended: the files are read in the first run only; every later run
\* takes the cached tables, preprocesses them again and arrives at the same
\* preprocessed tables; no run changes the files or the cache entry.
C5_ReadOnceRederivedEachRun ==
    [][steps # <<>> =>
         /\ "read_csv" \notin Range(steps')
         /\ "preprocess" \in Range(steps')
         /\ each_match_records_df' = each_match_records_df
         /\ each_ball_records_df' = each_ball_records_df
         /\ cache' = cache
         /\ csv_match' = csv_match /\ csv_ball' = csv_ball]_vars

\* A later run, started by an interaction, that filtered a match away and
\* exported.
C5_Witness ==
    /\ "read_csv" \notin Range(steps)
    /\ Drawn("preprocess") /\ Drawn("export")
    /\ Len(filtered_match_df) < Len(each_match_records_df)

\* The text of a download link, decoded.
Exported == href[1].data.base64

\* C10: a download link exists only in a run in which export was requested,
\* and its content is the header row followed by one row per match retained
\* by the selections of that same run, cells in column order, no index column.
C10_ExportIsCurrentFilter ==
    /\ href # <<>> <=> Drawn("export")
    /\ Drawn("export") => export_clicked /\ error = "none"
    /\ href # <<>> =>
         /\ href[1].download = "cricket_data.csv"
         /\ Exported[1] = <<"match_number", "season", "date", "venue", "team1", "team2",
                            "toss_won", "toss_decision", "winner", "winner_runs",
                            "winner_wickets", "man_of_match">>
         /\ Len(Exported) = 1 +
              Cardinality({i \in 1..Len(each_match_records_df) : Chosen(each_match_records_df[i])})
         /\ \A k \in 2..Len(Exported) :
              \E i \in 1..Len(each_match_records_df) :
                 LET r == each_match_records_df[i]
                 IN /\ Chosen(r)
                    /\ k - 1 = Cardinality({j \in 1..i : Chosen(each_match_records_df[j])})
                    /\ Exported[k] =
                         <<r.match_number, r.season,
                           <<r.date \div 10000, (r.date \div 100) % 100, r.date % 100>>,
                           r.venue, r.team1, r.team2, r.toss_won, r.toss_decision,
                           r.winner, r.winner_runs, r.winner_wickets, r.man_of_match>>

\* An export of a proper part of the match table: the second match alone.
C10_Witness ==
    /\ href # <<>>
    /\ Len(Exported) = 2
    /\ Exported[2][1] = 2
    /\ Len(each_match_records_df) = 2

\* The text of an "over" cell as read: an empty cell reads "nan".
OverText(cell) == IF cell = <<>> THEN <<"n", "a", "n">> ELSE cell

\* The characters in front of the first '.', all of them when there is none.
BeforePoint(t) ==
    SubSeq(t, 1, CHOOSE k \in 0..Len(t) :
                    /\ \A j \in 1..k : t[j] # "."
                    /\ (k = Len(t) \/ t[k + 1] = "."))

RECURSIVE Pow10(_)
Pow10(k) == IF k = 0 THEN 1 ELSE 10 * Pow10(k - 1)

Decimal(t) == SumSeq([j \in 1..Len(t) |-> DigitValue(t[j]) * Pow10(Len(t) - j)])

IsNumeral(t) == Len(t) > 0 /\ \A j \in 1..Len(t) : t[j] \in Digits

FirstAt(col, x) == CHOOSE k \in 1..Len(col) : col[k] = x /\ \A j \in 1..(k - 1) : col[j] # x

NamesOf(col) == Range(col) \ {<<>>}

\* A top list: at most 10 names of the column, each once and with its number
\* of appearances, in descending order of that number, and no name left out
\* that appears more often than one in the list.
TopListOK(list, col) ==
    /\ Len(list) <= 10
    /\ Len(list) = (IF Cardinality(NamesOf(col)) > 10 THEN 10 ELSE Cardinality(NamesOf(col)))
    /\ \A i \in 1..Len(list) :
         /\ list[i][1] \in NamesOf(col)
         /\ list[i][2] = Cardinality({k \in 1..Len(col) : col[k] = list[i][1]})
    /\ \A i, j \in 1..Len(list) : i < j =>
         /\ list[i][1] # list[j][1]
         /\ list[i][2] >= list[j][2]
    /\ \A x \in NamesOf(col) \ {list[i][1] : i \in 1..Len(list)} :
         /\ Len(list) = 10
         /\ \A i \in 1..Len(list) :
              Cardinality({k \in 1..Len(col) : col[k] = x}) <= list[i][2]

\* Names with equal counts stand in first-encountered order.
TiesFirstSeen(list, col) ==
    \A i, j \in 1..Len(list) :
       (i < j /\ list[i][2] = list[j][2]) => FirstAt(col, list[i][1]) < FirstAt(col, list[j][1])

TopRan == Drawn("analysis") /\ analysis.type = "Top Players"

\* C7 as stated: the top lists hold at most 10 names, each once, by
\* descending appearance count, ties in first-encountered order, no name left
\* out with a higher count than one in the list.
C7_TopTenTiesFirstSeen ==
    TopRan =>
        /\ TopListOK(analysis.top_batters, Column(filtered_ball_df, "batter"))
        /\ TopListOK(analysis.top_bowlers, Column(filtered_ball_df, "bowler"))
        /\ TiesFirstSeen(analysis.top_batters, Column(filtered_ball_df, "batter"))
        /\ TiesFirstSeen(analysis.top_bowlers, Column(filtered_ball_df, "bowler"))

\* C7, amended: the top lists hold at most 10 names, each once, by descending
\* appearance count, no name left out with a higher count than one in the
\* list; the order among names of equal count is not fixed.
C7_TopTenDescending ==
    TopRan =>
        /\ TopListOK(analysis.top_batters, Column(filtered_ball_df, "batter"))
        /\ TopListOK(analysis.top_bowlers, Column(filtered_ball_df, "bowler"))

\* A Top Players run over more than 10 batters: a batter is left out, the
\* list is led by one who appears more often than the last in it, and that
\* one was first encountered after all the others.
C7_Witness ==
    /\ TopRan
    /\ Len(analysis.top_batters) = 10
    /\ Cardinality(NamesOf(Column(filtered_ball_df, "batter"))) > 10
    /\ analysis.top_batters[1][2] > analysis.top_batters[10][2]
    /\ \A i \in 2..10 :
         FirstAt(Column(filtered_ball_df, "batter"), analysis.top_batters[i][1])
           < FirstAt(Column(filtered_ball_df, "batter"), analysis.top_batters[1][1])

\* C8: a winner-by-runs value missing in the file is 0 after preprocessing,
\* without an error, and the Win Margin by Runs aggregate holds exactly the
\* retained matches whose winner-by-runs is greater than 0, hence none whose
\* value was missing; likewise for winner-by-wickets.
C8_MissingMarginIsZeroAndExcluded ==
    steps # <<>> =>
        /\ Drawn("preprocess") /\ error = "none"
        /\ \A i \in 1..Len(csv_match) :
             /\ each_match_records_df[i].winner_runs =
                  (IF csv_match[i].winner_runs = <<>> THEN 0 ELSE csv_match[i].winner_runs[1])
             /\ each_match_records_df[i].winner_wickets =
                  (IF csv_match[i].winner_wickets = <<>> THEN 0 ELSE csv_match[i].winner_wickets[1])
        /\ analysis.type = "Match Outcomes" =>
             /\ Range(analysis.win_by_runs) =
                  {r \in Range(filtered_match_df) : r.winner_runs > 0}
             /\ Range(analysis.win_by_wickets) =
                  {r \in Range(filtered_match_df) : r.winner_wickets > 0}
             /\ \A i \in 1..Len(csv_match) :
                  /\ csv_match[i].winner_runs = <<>> =>
                       csv_match[i].match_number \notin MatchNumbers(analysis.win_by_runs)
                  /\ csv_match[i].winner_wickets = <<>> =>
                       csv_match[i].match_number \notin MatchNumbers(analysis.win_by_wickets)

\* A Match Outcomes run that retains a match whose winner-by-runs was missing
\* and one won by runs: the first is left out, the second is in.
C8_Witness ==
    /\ Drawn("analysis") /\ analysis.type = "Match Outcomes"
    /\ Len(analysis.win_by_runs) = 1
    /\ \E i \in 1..Len(csv_match) :
         /\ csv_match[i].winner_runs = <<>>
         /\ csv_match[i].match_number \in MatchNumbers(filtered_match_df)

\* The text holds "out" in any letter case.
SaysOut(t) ==
    \E k \in 1..(Len(t) - 2) :
       t[k] \in {"o", "O"} /\ t[k + 1] \in {"u", "U"} /\ t[k + 2] \in {"t", "T"}

WicketRan == Drawn("analysis") /\ analysis.type = "Wicket Distribution"

\* C9: a retained ball event counts as a wicket if and only if its outcome
\* text holds "out" in any letter case, a missing outcome never; the per-over
\* table gives each over number its number of such events, and its counts add
\* up to the size of the wicket subset.
C9_WicketIffOut ==
    WicketRan =>
        /\ \A i \in 1..Len(filtered_ball_df) :
             (filtered_ball_df[i] \in Range(analysis.wickets_df))
                <=> SaysOut(filtered_ball_df[i].outcome)
        /\ Range(analysis.wickets_df) \subseteq Range(filtered_ball_df)
        /\ Len(analysis.wickets_df) =
             Cardinality({i \in 1..Len(filtered_ball_df) : SaysOut(filtered_ball_df[i].outcome)})
        /\ DOMAIN analysis.wickets_per_over =
             {filtered_ball_df[i].over_number :
                i \in {k \in 1..Len(filtered_ball_df) : SaysOut(filtered_ball_df[k].outcome)}}
        /\ \A o \in DOMAIN analysis.wickets_per_over :
             analysis.wickets_per_over[o] =
               Cardinality({i \in 1..Len(filtered_ball_df) :
                              /\ filtered_ball_df[i].over_number = o
                              /\ SaysOut(filtered_ball_df[i].outcome)})

\* A Wicket Distribution run over two retained events of different overs, one
\* whose outcome spells "out" in mixed case and is counted, one with a missing
\* outcome that is not.
C9_Witness ==
    /\ WicketRan
    /\ Len(filtered_ball_df) = 2
    /\ "U" \in Range(filtered_ball_df[1].outcome)
    /\ filtered_ball_df[1] \in Range(analysis.wickets_df)
    /\ filtered_ball_df[2].outcome = <<>>
    /\ DOMAIN analysis.wickets_per_over = {0}
    /\ analysis.wickets_per_over[0] = 1

====
